---- MODULE Spec2Model ----
(***************************************************************************)
(* Marketing-calendar backend (app/backend/server.py): the campaigns and   *)
(* channels collections of the document store and the request handlers     *)
(* that read and write them.  A handler is a coroutine that suspends at    *)
(* every awaited database operation, so every database operation is one    *)
(* atomic step and the local code that follows it (up to the next await)   *)
(* runs in the same step.  Requests of different clients interleave at     *)
(* these steps.                                                            *)
(***************************************************************************)
EXTENDS Integers, Sequences, FiniteSets, TLC

\* ---------------------------------------------------------------- bounds
\* Campaign ids generated in a run with one client (SeqSpec) and in a run with
\* two concurrent clients, channel ids generated, and ticks of the clock.
MaxSeqCampaigns == 2
MaxCampaigns == 1
MaxChannels == 1
MaxClock == 1

\* Requests that can be in flight at the same time.
Procs == {"r1", "r2"}

\* A field absent from a JSON body, and a JSON null (Python None).
MISSING == "<missing>"
NULL == "<null>"

VARIABLES
    campaigns,     \* db.campaigns: the stored campaign documents
    channels,      \* db.channels: the stored custom channel documents, in insertion order
    clock,         \* the wall clock read by datetime.now(timezone.utc)
    nextCampaign,  \* number of campaign uuids generated so far, plus one
    nextChannel,   \* number of channel uuids generated so far, plus one
    pc,            \* per request slot: the await the handler is suspended at
    loc,           \* per request slot: the handler's local variables
    resp,          \* the HTTP response sent by the step just taken, NoResp if it sent none;
                   \* with it the request it answers and, as history, whether no step
                   \* of another request ran while this request was in flight (alone)
    fresh          \* history: the records returned by create-campaign requests for whose
                   \* id no update or delete request has been issued since

vars == <<campaigns, channels, clock, nextCampaign, nextChannel, pc, loc, resp, fresh>>

\* ------------------------------------------------------------ datetimes
\* datetime.now(timezone.utc): the clock counts half seconds.
Now == [sec |-> clock \div 2, usec |-> (clock % 2) * 500000]

\* datetime.isoformat(): the fraction is left out when microsecond is 0.
isoformat_nofraction(dt) == <<dt.sec>>

isoformat(dt) == IF dt.usec = 0 THEN <<dt.sec>> ELSE <<dt.sec, dt.usec>>

\* datetime.fromisoformat()
fromisoformat(s) == [sec |-> s[1], usec |-> IF Len(s) > 1 THEN s[2] ELSE 0]

\* a <= b on datetimes
DtLeq(a, b) == a.sec < b.sec \/ (a.sec = b.sec /\ a.usec <= b.usec)

\* ------------------------------------------------------------- channels
DefaultNames == {"social", "email", "blog", "ads"}

\* get_channels: the four synthesized default channels.
DefaultChannels ==
    << [id |-> "social", name |-> "social", label |-> "Social Media", color |-> "#FF6B6B", is_default |-> TRUE, created_at |-> Now],
       [id |-> "email", name |-> "email", label |-> "Email", color |-> "#4ECDC4", is_default |-> TRUE, created_at |-> Now],
       [id |-> "blog", name |-> "blog", label |-> "Blog", color |-> "#FFE66D", is_default |-> TRUE, created_at |-> Now],
       [id |-> "ads", name |-> "ads", label |-> "Ads", color |-> "#1A535C", is_default |-> TRUE, created_at |-> Now] >>

GetChannels_defaults_only == DefaultChannels

\* get_channels: stored channels with created_at parsed, after the defaults.
GetChannels ==
    DefaultChannels \o
    [i \in 1..Len(channels) |-> [channels[i] EXCEPT !.created_at = fromisoformat(@)]]

\* uuid4() for channels: the n-th generated id.
ChannelUuid(n) == <<"ch-1", "ch-2", "ch-3", "ch-4">>[n]

\* uuid4() for campaigns: the n-th generated id.
CampaignUuid(n) == <<"c-1", "c-2", "c-3", "c-4", "c-5">>[n]

\* Ids a client may send for a campaign / a channel.
CampaignIds(max) == {CampaignUuid(n) : n \in 1..max} \cup {"nonexistent-id"}
ChannelIds == DefaultNames \cup {ChannelUuid(n) : n \in 1..MaxChannels} \cup {"nonexistent-id"}

\* ------------------------------------------------------- request bodies
CampaignFields == {"title", "description", "channel", "status", "date", "time", "color"}

\* POST /campaigns bodies without a color, one per default channel.
NoColorBody(c) ==
    [title |-> "t1", description |-> "desc", channel |-> c, status |-> "draft",
     date |-> "d1", time |-> "10:00", color |-> MISSING]

CreateBodies ==
    {NoColorBody(c) : c \in DefaultNames} \cup
    { [title |-> "t1", description |-> MISSING, channel |-> "social", status |-> MISSING,
       date |-> "d1", time |-> MISSING, color |-> "#FF6B6B"],
      [title |-> "t2", description |-> NULL, channel |-> "promo", status |-> "archived",
       date |-> "d1", time |-> "10:00", color |-> "#9B59B6"] }

\* PUT /campaigns/{id} bodies.
UpdateBodies ==
    { [title |-> "t2", channel |-> "email", status |-> "scheduled"],
      [channel |-> "promo", status |-> "published", color |-> NULL] }

\* POST /channels bodies.
ChannelBodies ==
    { [name |-> "promo", label |-> "Promo", color |-> "#9B59B6"],
      [name |-> "social", label |-> "Social 2", color |-> "#000000"] }

\* ------------------------------------------------------ pydantic models
\* CampaignCreate validation: title, channel, date, color are required str,
\* status is a str with a default, description and time are Optional.
ValidCreate(body) ==
    /\ \A f \in {"title", "channel", "date", "color"} : body[f] \notin {MISSING, NULL}
    /\ body.status # NULL

\* CampaignCreate(...).model_dump(): defaults filled in.
CreateDump(body) ==
    [body EXCEPT !.description = IF @ = MISSING THEN "" ELSE @,
                 !.status = IF @ = MISSING THEN "draft" ELSE @,
                 !.time = IF @ = MISSING THEN "09:00" ELSE @]

\* Campaign(**campaign_dict): generated id and timestamps.
CampaignObj(d, id, now) ==
    [id |-> id, title |-> d.title, description |-> d.description, channel |-> d.channel,
     status |-> d.status, date |-> d.date, time |-> d.time, color |-> d.color,
     created_at |-> now, updated_at |-> now]

\* The stored document: model_dump() with both timestamps as ISO strings.
CampaignDoc(obj) ==
    [obj EXCEPT !.created_at = isoformat(@), !.updated_at = isoformat(@)]

\* Timestamps of a fetched document parsed back to datetimes.
ParseCampaign(doc) ==
    [doc EXCEPT !.created_at = fromisoformat(@), !.updated_at = fromisoformat(@)]

\* CampaignUpdate(...).model_dump(): every field, None where not supplied.
UpdateDump(body) ==
    [f \in CampaignFields |-> IF f \in DOMAIN body THEN body[f] ELSE NULL]

UpdateData_keeps_none(body, now) ==
    [f \in CampaignFields \cup {"updated_at"} |->
        IF f = "updated_at" THEN isoformat(now) ELSE UpdateDump(body)[f]]

\* update_data: the non-None fields, plus updated_at.
UpdateData(body, now) ==
    LET d == UpdateDump(body)
    IN  [f \in {g \in CampaignFields : d[g] # NULL} \cup {"updated_at"} |->
            IF f = "updated_at" THEN isoformat(now) ELSE d[f]]

\* {"$set": update_data} applied to one document.
SetFields(doc, data) ==
    [f \in DOMAIN doc |-> IF f \in DOMAIN data THEN data[f] ELSE doc[f]]

\* ------------------------------------------------------------ the store
\* db.campaigns.find({"id": id}) (ids are unique uuids).
FindCampaigns_nofilter(id) == campaigns

FindCampaigns(id) == {c \in campaigns : c.id = id}

\* db.campaigns.count_documents(filter)
CountAll == Cardinality(campaigns)
CountStatus_nofilter(s) == Cardinality(campaigns)

CountStatus(s) == Cardinality({c \in campaigns : c.status = s})
CountChannel_nofilter(name) == Cardinality(campaigns)

CountChannel(name) == Cardinality({c \in campaigns : c.channel = name})

\* db.channels.find_one({"id": id}): index of the first match, 0 if none.
FindChannel(id) ==
    LET hits == {i \in 1..Len(channels) : channels[i].id = id}
    IN  IF hits = {} THEN 0 ELSE CHOOSE i \in hits : \A j \in hits : i <= j

RemoveAt(s, i) == [j \in 1..(Len(s) - 1) |-> IF j < i THEN s[j] ELSE s[j + 1]]

\* ------------------------------------------------------- request slots
NoLoc == [op |-> "none"]
NoResp == [op |-> "none", status |-> 0, alone |-> TRUE]

\* A step of request slot p: its own locals become l, and every other
\* request in flight has been interleaved with.
Locals(p, l) ==
    [q \in Procs |->
        IF q = p THEN l
        ELSE IF loc[q].op = "none" THEN loc[q]
        ELSE [loc[q] EXCEPT !.alone = FALSE]]

Init ==
    /\ campaigns = {}
    /\ channels = <<>>
    /\ clock \in 0..MaxClock
    /\ nextCampaign = 1
    /\ nextChannel = 1
    /\ pc = [p \in Procs |-> "idle"]
    /\ loc = [p \in Procs |-> NoLoc]
    /\ resp = NoResp
    /\ fresh = {}

\* Time passes.
Tick ==
    /\ clock < MaxClock
    /\ clock' = clock + 1
    /\ resp' = NoResp
    /\ UNCHANGED <<campaigns, channels, nextCampaign, nextChannel, pc, loc, fresh>>

\* --------------------------------------------------- campaign handlers
\* POST /campaigns
create_campaign(p, body) ==
    /\ pc[p] = "idle"
    /\ IF ~ValidCreate(body)
       THEN \* request validation fails before the handler body runs
            /\ resp' = [op |-> "create_campaign", request |-> body, status |-> 422, alone |-> TRUE]
            /\ UNCHANGED <<campaigns, nextCampaign, fresh>>
       ELSE /\ LET campaign_obj == CampaignObj(CreateDump(body), CampaignUuid(nextCampaign), Now)
               IN  /\ campaigns' = campaigns \cup {CampaignDoc(campaign_obj)}
                   /\ resp' = [op |-> "create_campaign", request |-> body, status |-> 200,
                               alone |-> TRUE, body |-> campaign_obj]
                   /\ fresh' = fresh \cup {campaign_obj}
            /\ nextCampaign' = nextCampaign + 1
    /\ loc' = Locals(p, NoLoc)
    /\ UNCHANGED <<channels, clock, nextChannel, pc>>

\* GET /campaigns/{campaign_id}
get_campaign(p, campaign_id) ==
    /\ pc[p] = "idle"
    /\ LET found == FindCampaigns(campaign_id)
       IN  resp' = IF found = {}
                   THEN [op |-> "get_campaign", request |-> [id |-> campaign_id], status |-> 404,
                         alone |-> TRUE, detail |-> "Campaign not found"]
                   ELSE [op |-> "get_campaign", request |-> [id |-> campaign_id], status |-> 200,
                         alone |-> TRUE, body |-> ParseCampaign(CHOOSE c \in found : TRUE)]
    /\ loc' = Locals(p, NoLoc)
    /\ UNCHANGED <<campaigns, channels, clock, nextCampaign, nextChannel, pc, fresh>>

\* PUT /campaigns/{campaign_id}: the first find_one, the 404 check and the
\* construction of update_data (which reads the clock).
update_find(p, campaign_id, body) ==
    /\ pc[p] = "idle"
    /\ IF FindCampaigns(campaign_id) = {}
       THEN /\ resp' = [op |-> "update_campaign", request |-> [id |-> campaign_id, input |-> body],
                        status |-> 404, alone |-> TRUE, detail |-> "Campaign not found"]
            /\ loc' = Locals(p, NoLoc)
            /\ pc' = pc
       ELSE /\ loc' = Locals(p, [op |-> "update", id |-> campaign_id, input |-> body,
                                 update_data |-> UpdateData(body, Now), alone |-> TRUE])
            /\ pc' = [pc EXCEPT ![p] = "update_write"]
            /\ resp' = NoResp
    /\ fresh' = {r \in fresh : r.id # campaign_id}
    /\ UNCHANGED <<campaigns, channels, clock, nextCampaign, nextChannel>>

\* PUT /campaigns/{campaign_id}: update_one({"id": campaign_id}, {"$set": update_data})
update_write(p) ==
    /\ pc[p] = "update_write"
    /\ campaigns' = {IF c.id = loc[p].id THEN SetFields(c, loc[p].update_data) ELSE c : c \in campaigns}
    /\ pc' = [pc EXCEPT ![p] = "update_refetch"]
    /\ loc' = Locals(p, loc[p])
    /\ resp' = NoResp
    /\ UNCHANGED <<channels, clock, nextCampaign, nextChannel, fresh>>

\* PUT /campaigns/{campaign_id}: the second find_one and the response.
\* updated_campaign.get(...) on None raises, which ends the request with 500.
update_refetch(p) ==
    /\ pc[p] = "update_refetch"
    /\ LET found == FindCampaigns(loc[p].id)
       IN  resp' = IF found = {}
                   THEN [op |-> "update_campaign", request |-> [id |-> loc[p].id, input |-> loc[p].input],
                         status |-> 500, alone |-> loc[p].alone]
                   ELSE [op |-> "update_campaign", request |-> [id |-> loc[p].id, input |-> loc[p].input],
                         status |-> 200, alone |-> loc[p].alone,
                         body |-> ParseCampaign(CHOOSE c \in found : TRUE)]
    /\ pc' = [pc EXCEPT ![p] = "idle"]
    /\ loc' = Locals(p, NoLoc)
    /\ UNCHANGED <<campaigns, channels, clock, nextCampaign, nextChannel, fresh>>

\* DELETE /campaigns/{campaign_id}
delete_campaign(p, campaign_id) ==
    /\ pc[p] = "idle"
    /\ LET found == FindCampaigns(campaign_id)
       IN  /\ campaigns' = campaigns \ found
           /\ resp' = IF Cardinality(found) = 0
                      THEN [op |-> "delete_campaign", request |-> [id |-> campaign_id], status |-> 404,
                            alone |-> TRUE, detail |-> "Campaign not found"]
                      ELSE [op |-> "delete_campaign", request |-> [id |-> campaign_id], status |-> 200,
                            alone |-> TRUE, message |-> "Campaign deleted successfully"]
    /\ fresh' = {r \in fresh : r.id # campaign_id}
    /\ loc' = Locals(p, NoLoc)
    /\ UNCHANGED <<channels, clock, nextCampaign, nextChannel, pc>>

\* ---------------------------------------------------- channel handlers
\* POST /channels
create_channel(p, body) ==
    /\ pc[p] = "idle"
    /\ LET channel_obj == [id |-> ChannelUuid(nextChannel), name |-> body.name,
                           label |-> body.label, color |-> body.color,
                           is_default |-> FALSE, created_at |-> Now]
       IN  /\ channels' = Append(channels, [channel_obj EXCEPT !.created_at = isoformat(@)])
           /\ resp' = [op |-> "create_channel", request |-> body, status |-> 200,
                       alone |-> TRUE, body |-> channel_obj]
    /\ nextChannel' = nextChannel + 1
    /\ loc' = Locals(p, NoLoc)
    /\ UNCHANGED <<campaigns, clock, nextCampaign, pc, fresh>>

\* DELETE /channels/{channel_id}: find_one in db.channels and the two checks
\* on its result.
delete_channel_find(p, channel_id) ==
    /\ pc[p] = "idle"
    /\ LET i == FindChannel(channel_id)
       IN  IF i = 0
           THEN /\ resp' = [op |-> "delete_channel", request |-> [id |-> channel_id], status |-> 404,
                            alone |-> TRUE, detail |-> <<"Channel not found">>]
                /\ loc' = Locals(p, NoLoc)
                /\ pc' = pc
           ELSE IF channels[i].is_default
           THEN /\ resp' = [op |-> "delete_channel", request |-> [id |-> channel_id], status |-> 400,
                            alone |-> TRUE, detail |-> <<"Cannot delete default channels">>]
                /\ loc' = Locals(p, NoLoc)
                /\ pc' = pc
           ELSE /\ loc' = Locals(p, [op |-> "delete_channel", id |-> channel_id,
                                     channel |-> channels[i], alone |-> TRUE])
                /\ pc' = [pc EXCEPT ![p] = "delete_channel_count"]
                /\ resp' = NoResp
    /\ UNCHANGED <<campaigns, channels, clock, nextCampaign, nextChannel, fresh>>

\* DELETE /channels/{channel_id}: count_documents({"channel": channel['name']})
delete_channel_count(p) ==
    /\ pc[p] = "delete_channel_count"
    /\ LET campaigns_count == CountChannel(loc[p].channel.name)
       IN  IF campaigns_count > 0
           THEN /\ resp' = [op |-> "delete_channel", request |-> [id |-> loc[p].id], status |-> 400,
                            alone |-> loc[p].alone,
                            detail |-> <<"Cannot delete channel. ", campaigns_count,
                                         " campaigns are using it">>]
                /\ pc' = [pc EXCEPT ![p] = "idle"]
                /\ loc' = Locals(p, NoLoc)
           ELSE /\ pc' = [pc EXCEPT ![p] = "delete_channel_delete"]
                /\ loc' = Locals(p, loc[p])
                /\ resp' = NoResp
    /\ UNCHANGED <<campaigns, channels, clock, nextCampaign, nextChannel, fresh>>

\* DELETE /channels/{channel_id}: delete_one({"id": channel_id})
delete_channel_delete(p) ==
    /\ pc[p] = "delete_channel_delete"
    /\ LET i == FindChannel(loc[p].id)
       IN  channels' = IF i = 0 THEN channels ELSE RemoveAt(channels, i)
    /\ resp' = [op |-> "delete_channel", request |-> [id |-> loc[p].id], status |-> 200,
                alone |-> loc[p].alone, detail |-> <<"Channel deleted successfully">>]
    /\ pc' = [pc EXCEPT ![p] = "idle"]
    /\ loc' = Locals(p, NoLoc)
    /\ UNCHANGED <<campaigns, clock, nextCampaign, nextChannel, fresh>>

\* -------------------------------------------------------- GET /stats
\* channel_counts[name] = count
PutCount(counts, name, count) ==
    [n \in DOMAIN counts \cup {name} |-> IF n = name THEN count ELSE counts[n]]

\* count_documents({})
stats_total(p) ==
    /\ pc[p] = "idle"
    /\ loc' = Locals(p, [op |-> "stats", total_campaigns |-> CountAll, draft_count |-> 0,
                         scheduled_count |-> 0, published_count |-> 0,
                         names |-> <<>>, i |-> 0, channel_counts |-> <<>>, alone |-> TRUE])
    /\ pc' = [pc EXCEPT ![p] = "stats_draft"]
    /\ resp' = NoResp
    /\ UNCHANGED <<campaigns, channels, clock, nextCampaign, nextChannel, fresh>>

\* count_documents({"status": "draft"})
stats_draft(p) ==
    /\ pc[p] = "stats_draft"
    /\ loc' = Locals(p, [loc[p] EXCEPT !.draft_count = CountStatus("draft")])
    /\ pc' = [pc EXCEPT ![p] = "stats_scheduled"]
    /\ resp' = NoResp
    /\ UNCHANGED <<campaigns, channels, clock, nextCampaign, nextChannel, fresh>>

\* count_documents({"status": "scheduled"})
stats_scheduled(p) ==
    /\ pc[p] = "stats_scheduled"
    /\ loc' = Locals(p, [loc[p] EXCEPT !.scheduled_count = CountStatus("scheduled")])
    /\ pc' = [pc EXCEPT ![p] = "stats_published"]
    /\ resp' = NoResp
    /\ UNCHANGED <<campaigns, channels, clock, nextCampaign, nextChannel, fresh>>

\* count_documents({"status": "published"})
stats_published(p) ==
    /\ pc[p] = "stats_published"
    /\ loc' = Locals(p, [loc[p] EXCEPT !.published_count = CountStatus("published")])
    /\ pc' = [pc EXCEPT ![p] = "stats_channels"]
    /\ resp' = NoResp
    /\ UNCHANGED <<campaigns, channels, clock, nextCampaign, nextChannel, fresh>>

\* channels = await get_channels(): the names the loop iterates over
stats_channels(p) ==
    /\ pc[p] = "stats_channels"
    /\ loc' = Locals(p, [loc[p] EXCEPT !.names = [k \in 1..Len(GetChannels) |-> GetChannels[k].name],
                                       !.i = 1])
    /\ pc' = [pc EXCEPT ![p] = "stats_count"]
    /\ resp' = NoResp
    /\ UNCHANGED <<campaigns, channels, clock, nextCampaign, nextChannel, fresh>>

\* The response of get_stats from its locals.
StatsResponse(l) ==
    [op |-> "stats", status |-> 200, alone |-> l.alone, total |-> l.total_campaigns,
     by_status |-> [draft |-> l.draft_count, scheduled |-> l.scheduled_count,
                    published |-> l.published_count],
     by_channel |-> l.channel_counts]

\* One iteration of the loop: count_documents({"channel": channel['name']});
\* after the last one the response is built.
stats_count(p) ==
    /\ pc[p] = "stats_count"
    /\ LET name == loc[p].names[loc[p].i]
           l == [loc[p] EXCEPT !.channel_counts = PutCount(@, name, CountChannel(name)),
                               !.i = @ + 1]
       IN  IF loc[p].i < Len(loc[p].names)
           THEN /\ loc' = Locals(p, l)
                /\ pc' = pc
                /\ resp' = NoResp
           ELSE /\ resp' = StatsResponse(l)
                /\ loc' = Locals(p, NoLoc)
                /\ pc' = [pc EXCEPT ![p] = "idle"]
    /\ UNCHANGED <<campaigns, channels, clock, nextCampaign, nextChannel, fresh>>

\* ------------------------------------------------------- specification
\* The steps request slot p can take; max bounds the campaign ids generated.
CreateCampaign(p, max) ==
    /\ nextCampaign <= max
    /\ \E body \in CreateBodies : create_campaign(p, body)
GetCampaign(p, max) == \E id \in CampaignIds(max) : get_campaign(p, id)
UpdateFind(p, max) == \E id \in CampaignIds(max), body \in UpdateBodies : update_find(p, id, body)
DeleteCampaign(p, max) == \E id \in CampaignIds(max) : delete_campaign(p, id)
CreateChannel(p) ==
    /\ nextChannel <= MaxChannels
    /\ \E body \in ChannelBodies : create_channel(p, body)
DeleteChannelFind(p) == \E id \in ChannelIds : delete_channel_find(p, id)

\* POST, PUT and DELETE on campaigns.
CampaignWrites(p, max) ==
    \/ CreateCampaign(p, max)
    \/ UpdateFind(p, max)
    \/ update_write(p)
    \/ update_refetch(p)
    \/ DeleteCampaign(p, max)

\* POST and DELETE on channels.
ChannelWrites(p) ==
    \/ CreateChannel(p)
    \/ DeleteChannelFind(p)
    \/ delete_channel_count(p)
    \/ delete_channel_delete(p)

\* GET /stats
Stats(p) ==
    \/ stats_total(p)
    \/ stats_draft(p)
    \/ stats_scheduled(p)
    \/ stats_published(p)
    \/ stats_channels(p)
    \/ stats_count(p)

Step(p, max) ==
    \/ CampaignWrites(p, max)
    \/ GetCampaign(p, max)
    \/ ChannelWrites(p)
    \/ Stats(p)

\* Requests of any kind interleave at their database operations.
Next == Tick \/ \E p \in Procs : Step(p, MaxCampaigns)

Spec == Init /\ [][Next]_vars

\* One client that sends its next request after the response to the previous one.
SeqNext == Step("r1", MaxSeqCampaigns)

SeqSpec == Init /\ [][SeqNext]_vars

\* Two clients that read and write campaigns while time passes.
CampNext == Tick \/ \E p \in Procs : (CampaignWrites(p, MaxCampaigns) \/ GetCampaign(p, MaxCampaigns))

CampSpec == Init /\ [][CampNext]_vars

\* A client that creates and deletes channels while another writes campaigns.
ChanNext == ChannelWrites("r1") \/ CampaignWrites("r2", MaxCampaigns)

ChanSpec == Init /\ [][ChanNext]_vars

\* A client that asks for the statistics while another writes campaigns.
StatsNext == Stats("r1") \/ CampaignWrites("r2", MaxCampaigns)

StatsSpec == Init /\ [][StatsNext]_vars

\* ---------------------------------------------------------------- claims
\* The color the channel list gives the channel named name ("" if it lists none).
ListedNames == {GetChannels[k].name : k \in 1..Len(GetChannels)}

ChannelColor(name) ==
    LET hits == {k \in 1..Len(GetChannels) : GetChannels[k].name = name}
    IN  IF hits = {} THEN "" ELSE GetChannels[CHOOSE k \in hits : \A j \in hits : k <= j].color

\* The fixed colors of the four default channels, as the API documents them.
FixedColor(c) ==
    CASE c = "social" -> "#FF6B6B"
      [] c = "email" -> "#4ECDC4"
      [] c = "blog" -> "#FFE66D"
      [] c = "ads" -> "#1A535C"

\* C1: a create-campaign request that names a default channel and supplies no
\* color succeeds, and the campaign returned and stored has that channel's
\* fixed color.
C1_NoColorCreateGetsChannelColor ==
    (resp.op = "create_campaign" /\ resp.request.channel \in DefaultNames
        /\ resp.request.color = MISSING)
    => /\ resp.status = 200
       /\ resp.body.color = FixedColor(resp.request.channel)
       /\ \E c \in campaigns : c.id = resp.body.id /\ c.color = resp.body.color

\* C2: an update that supplies a channel and no color returns (and leaves
\* stored) the campaign with the color of the target channel.
C2_UpdateChannelSetsColor ==
    (resp.op = "update_campaign" /\ resp.status = 200
        /\ "channel" \in DOMAIN resp.request.input
        /\ UpdateDump(resp.request.input).color = NULL
        /\ resp.request.input.channel \in ListedNames)
    => /\ resp.body.color = ChannelColor(resp.request.input.channel)
       /\ \A c \in FindCampaigns(resp.request.id) : c.color = resp.body.color

\* C3: a delete-channel request for one of the ids social, email, blog, ads
\* ends with 400 "Cannot delete default channels", never with 404 or success.
C3_DeleteDefaultChannelIs400 ==
    (resp.op = "delete_channel" /\ resp.request.id \in DefaultNames)
    => /\ resp.status = 400
       /\ resp.detail = <<"Cannot delete default channels">>

\* The stored campaigns whose channel is name, counted from the collection.
Referencing(name) == Cardinality({c \in campaigns : c.channel = name})

\* C4: a delete-channel request for a stored custom channel that runs with no
\* other request interleaved: when N > 0 stored campaigns have the channel's
\* name it ends with 400 and a message stating N, and campaigns and channels
\* are unchanged; when N = 0 it ends with success and no channel with that
\* id is stored any more.  Until it ends it changes neither collection.
C4_Step ==
    /\ (resp'.op = "delete_channel"
            /\ \E i \in 1..Len(channels) : channels[i].id = resp'.request.id)
       => LET id == resp'.request.id
              i == CHOOSE k \in 1..Len(channels) : channels[k].id = id
              N == Referencing(channels[i].name)
          IN  IF N > 0
              THEN /\ resp'.status = 400
                   /\ resp'.detail = <<"Cannot delete channel. ", N, " campaigns are using it">>
                   /\ UNCHANGED <<campaigns, channels>>
              ELSE /\ resp'.status = 200
                   /\ \A k \in 1..Len(channels') : channels'[k].id # id
                   /\ Len(channels') = Len(channels) - 1
                   /\ UNCHANGED campaigns
    /\ (pc'["r1"] \in {"delete_channel_count", "delete_channel_delete"})
       => UNCHANGED <<campaigns, channels>>

C4_DeleteCustomChannel == [][C4_Step]_vars

C4_Witness ==
    /\ resp.op = "delete_channel"
    /\ resp.status = 400
    /\ \E i \in 1..Len(channels) :
          channels[i].id = resp.request.id /\ Referencing(channels[i].name) > 0

\* C5: at the step where delete_channel removes a channel document, no stored
\* campaign has that channel's name, whatever create-campaign and
\* update-campaign steps were interleaved with the request.
C5_Step ==
    \A i \in 1..Len(channels) :
        (\A k \in 1..Len(channels') : channels'[k].id # channels[i].id)
        => Referencing(channels[i].name) = 0

C5_NoDeleteWhileReferenced == [][C5_Step]_vars

\* C6: get, update and delete of a campaign id that matches no stored
\* campaign, and delete of a channel id that matches no stored channel, end
\* with 404 and leave campaigns and channels unchanged.
C6_Step ==
    /\ (resp'.op \in {"get_campaign", "update_campaign", "delete_campaign"}
            /\ pc["r1"] = "idle"
            /\ \A c \in campaigns : c.id # resp'.request.id)
       => (resp'.status = 404 /\ UNCHANGED <<campaigns, channels>>)
    /\ (resp'.op = "delete_channel" /\ pc["r1"] = "idle"
            /\ \A i \in 1..Len(channels) : channels[i].id # resp'.request.id)
       => (resp'.status = 404 /\ UNCHANGED <<campaigns, channels>>)
    /\ (pc["r1"] = "idle" /\ pc'["r1"] = "update_write")
       => \E c \in campaigns : c.id = loc'["r1"].id
    /\ (pc["r1"] = "idle" /\ pc'["r1"] = "delete_channel_count")
       => \E i \in 1..Len(channels) : channels[i].id = loc'["r1"].id

C6_AbsentIdIs404 == [][C6_Step]_vars

C6_Witness ==
    /\ resp.op \in {"update_campaign", "delete_campaign"}
    /\ resp.status = 404
    /\ campaigns # {}
    /\ channels # <<>>

\* C7: in every /stats response the three by_status counts add up to at
\* most total, also when campaign writes run between the count queries.
StatusSum(r) == r.by_status.draft + r.by_status.scheduled + r.by_status.published

C7_StatusSumAtMostTotal ==
    resp.op = "stats" => StatusSum(resp) <= resp.total

\* C7, amended: the same for a /stats request during which no step of another
\* request ran.
C7_StatusSumAtMostTotalAlone ==
    (resp.op = "stats" /\ resp.alone) => StatusSum(resp) <= resp.total

C7_Witness ==
    /\ resp.op = "stats"
    /\ resp.alone
    /\ resp.total > 0
    /\ StatusSum(resp) = resp.total

\* The sum of the counts of a by_channel dictionary.
RECURSIVE SumCounts(_)
SumCounts(f) ==
    IF DOMAIN f = {} THEN 0
    ELSE LET n == CHOOSE m \in DOMAIN f : TRUE
         IN  f[n] + SumCounts([m \in DOMAIN f \ {n} |-> f[m]])

\* The names of the default and the stored channels, and whether two of the
\* listed channels share a name.
StoredNames == {channels[i].name : i \in 1..Len(channels)}

NoSharedNames ==
    /\ \A i \in 1..Len(channels) : channels[i].name \notin DefaultNames
    /\ \A i, j \in 1..Len(channels) : channels[i].name = channels[j].name => i = j

\* C8: for a /stats request run with no other request interleaved, in a store
\* where no two listed channels share a name, the by_channel counts add up to
\* at least total.
C8_ChannelSumAtLeastTotal ==
    (resp.op = "stats" /\ NoSharedNames) => SumCounts(resp.by_channel) >= resp.total

\* C8, amended: the same when moreover the channel of every stored campaign
\* is the name of a listed channel.
C8_ChannelSumAtLeastTotalListed ==
    (resp.op = "stats" /\ NoSharedNames
        /\ \A c \in campaigns : c.channel \in DefaultNames \cup StoredNames)
    => SumCounts(resp.by_channel) >= resp.total

C8_Witness ==
    /\ resp.op = "stats"
    /\ NoSharedNames
    /\ \A c \in campaigns : c.channel \in DefaultNames \cup StoredNames
    /\ \E c \in campaigns : c.channel \in StoredNames
    /\ \E c \in campaigns : c.channel \in DefaultNames

\* C9: the update_one step of an update changes, in the campaign with the
\* request's id, only the fields supplied with a non-null value and
\* updated_at; updated_at becomes the time the request read, which is not in
\* the future and (when ordered is asked) not earlier than the updated_at it
\* replaces; every other campaign and every channel is unchanged.
C9_Write(p, ordered) ==
    LET id == loc[p].id
        input == loc[p].input
        supplied == {f \in DOMAIN input : input[f] # NULL}
    IN  /\ UNCHANGED channels
        /\ Cardinality(campaigns') = Cardinality(campaigns)
        /\ \A c \in campaigns : c.id # id => c \in campaigns'
        /\ \A c \in campaigns : c.id = id =>
              \E d \in campaigns' :
                 /\ d.id = id
                 /\ \A f \in supplied : d[f] = input[f]
                 /\ \A f \in DOMAIN c \ (supplied \cup {"updated_at"}) : d[f] = c[f]
                 /\ d.updated_at = loc[p].update_data.updated_at
                 /\ DtLeq(fromisoformat(d.updated_at), Now)
                 /\ ordered => DtLeq(fromisoformat(c.updated_at), fromisoformat(d.updated_at))

IsWrite(p) == pc[p] = "update_write" /\ pc'[p] = "update_refetch"

C10_GetReturnsCreated ==
    \A r \in fresh :
        (resp.op = "get_campaign" /\ resp.request.id = r.id)
        => /\ resp.status = 200
           /\ \A f \in {"id", "title", "description", "channel", "status", "date",
                        "time", "color", "created_at"} : resp.body[f] = r[f]

C10_Witness ==
    /\ resp.op = "get_campaign"
    /\ \E r \in fresh : r.id = resp.request.id /\ r.created_at.usec # 0
    /\ \E c \in campaigns : c.id # resp.request.id /\ \A r \in fresh : r.id # c.id

\* C11: every update-campaign request ends either with 404 or with a success
\* response carrying the stored campaign with the request's id as it is after
\* the update, whatever delete-campaign steps are interleaved with it; the
\* refetch never finds the campaign missing and no request ends with 500.
C11_UpdateEnds404OrRecord ==
    resp.op = "update_campaign"
    => \/ resp.status = 404
       \/ /\ resp.status = 200
          /\ \E c \in campaigns :
                /\ c.id = resp.request.id
                /\ \A f \in {"id", "title", "description", "channel", "status",
                             "date", "time", "color"} : resp.body[f] = c[f]
                /\ resp.body.updated_at = fromisoformat(c.updated_at)

====
